---- MODULE Spec2Model ----
(***************************************************************************)
(* Model of the Intigriti Researcher API MCP server (src/server.py):       *)
(* the HTTP client wrapper IntigritiResearcherAPI with its error           *)
(* classification, and the adapter handlers call_tool, read_resource,      *)
(* cleanup and main around the process-wide api_client.                    *)
(*                                                                         *)
(* A Python str is a sequence of fragments (TLA+ strings); an f-string or  *)
(* a concatenation is \o of fragment sequences, "contains" is membership   *)
(* of a fragment and "starts with" is equality of a leading subsequence.   *)
(***************************************************************************)
EXTENDS Integers, Sequences, FiniteSets, TLC

\* ------------------------------------------------------------------ values

\* JSON / Python argument values, tagged by type.
JNull == [t |-> "null"]
JInt(n) == [t |-> "int", v |-> n]
JBool(b) == [t |-> "bool", v |-> b]
JStr(s) == [t |-> "str", v |-> s]
JObj(v) == [t |-> "obj", v |-> v]

\* dict.get(key) / dict.get(key, default)
DictGet(d, k, default) == IF k \in DOMAIN d THEN d[k] ELSE default

\* The empty dict.
EmptyDict == [k \in {} |-> JNull]

\* d with d[k] = v set.
DictSet(d, k, v) == [x \in DOMAIN d \cup {k} |-> IF x = k THEN v ELSE d[x]]

\* str(x) of a Python int, as one fragment.
StrOfInt(n) == <<ToString(n)>>

\* ------------------------------------------------------------------ strings

RECURSIVE Lstrip(_, _)
Lstrip(s, c) == IF s # <<>> /\ Head(s) = c THEN Lstrip(Tail(s), c) ELSE s

RECURSIVE Rstrip(_, _)
Rstrip(s, c) ==
    IF s # <<>> /\ s[Len(s)] = c THEN Rstrip(SubSeq(s, 1, Len(s) - 1), c) ELSE s

\* str.split(sep): the list of the pieces between separators.
RECURSIVE Split(_, _)
Split(s, sep) ==
    IF s = <<>> THEN << <<>> >>
    ELSE LET rest == Split(Tail(s), sep) IN
         IF Head(s) = sep THEN << <<>> >> \o rest
         ELSE << <<Head(s)>> \o Head(rest) >> \o Tail(rest)

\* sep.join(parts)
RECURSIVE Join(_, _)
Join(parts, sep) ==
    IF parts = <<>> THEN <<>>
    ELSE IF Len(parts) = 1 THEN parts[1]
    ELSE parts[1] \o <<sep>> \o Join(Tail(parts), sep)

\* ------------------------------------------------------------------ URLs

\* A URL string is a fragment sequence whose first fragment, when it is one
\* of Origins, is its scheme and network location.
ApiOrigin == "https://api.intigriti.com"
OtherOrigin == "https://evil.example"
Origins == {ApiOrigin, OtherOrigin}

DefaultBaseUrl == <<ApiOrigin, "/", "external", "/", "researcher">>

HasNetloc(url) == url # <<>> /\ Head(url) \in Origins

\* filter(None, segments): the non-empty segments.
RECURSIVE FilterNonEmpty(_)
FilterNonEmpty(segs) ==
    IF segs = <<>> THEN <<>>
    ELSE IF Head(segs) = <<>> THEN FilterNonEmpty(Tail(segs))
    ELSE <<Head(segs)>> \o FilterNonEmpty(Tail(segs))

\* The dot-segment removal loop of urljoin (RFC 3986 5.2.4): '..' pops,
\* popping nothing when the path is already empty; '.' is dropped.
RECURSIVE ResolveDots(_, _)
ResolveDots(segs, acc) ==
    IF segs = <<>> THEN acc
    ELSE IF Head(segs) = <<"..">>
         THEN ResolveDots(Tail(segs),
                          IF acc = <<>> THEN acc ELSE SubSeq(acc, 1, Len(acc) - 1))
    ELSE IF Head(segs) = <<".">> THEN ResolveDots(Tail(segs), acc)
    ELSE ResolveDots(Tail(segs), Append(acc, Head(segs)))

\* urllib.parse.urljoin(base, url) for a base with a network location.
urljoin(base, url) ==
    IF url = <<>> THEN base
    ELSE IF HasNetloc(url) THEN url
    ELSE
      LET bpath == Tail(base)
          base_parts0 == Split(bpath, "/")
          base_parts == IF base_parts0[Len(base_parts0)] # <<>>
                        THEN SubSeq(base_parts0, 1, Len(base_parts0) - 1)
                        ELSE base_parts0
          segments0 == IF Head(url) = "/" THEN Split(url, "/")
                       ELSE base_parts \o Split(url, "/")
          n == Len(segments0)
          segments == IF n <= 2 THEN segments0
                      ELSE <<segments0[1]>>
                           \o FilterNonEmpty(SubSeq(segments0, 2, n - 1))
                           \o <<segments0[n]>>
          resolved0 == ResolveDots(segments, <<>>)
          resolved == IF segments[Len(segments)] \in {<<".">>, <<"..">>}
                      THEN Append(resolved0, <<>>)
                      ELSE resolved0
          joined == Join(resolved, "/")
          path == IF joined = <<>> \/ Head(joined) # "/"
                  THEN <<"/">> \o joined ELSE joined
      IN <<Head(base)>> \o path

\* ------------------------------------------------------------------ JSON

Quote(k) == "\"" \o k \o "\""

JsonKeys == {"maxCount", "id"}
Numerals == {0, 1, 42}

IsKeyTok(tok) == \E k \in JsonKeys : Quote(k) = tok
KeyOf(tok) == CHOOSE k \in JsonKeys : Quote(k) = tok
IsNumTok(tok) == \E n \in Numerals : ToString(n) = tok
NumOf(tok) == CHOOSE n \in Numerals : ToString(n) = tok

\* A parsed JSON document: an object of at most one member or an array of
\* at most one number.
JObject(keys, vals) == [type |-> "object", keys |-> keys, vals |-> vals]
JArray(vals) == [type |-> "array", keys |-> <<>>, vals |-> vals]

\* httpx Response.json(): json.loads of the body text; ok = FALSE stands for
\* the json.JSONDecodeError it raises.
JsonLoads(text) ==
    IF text = <<"{", "}">> THEN [ok |-> TRUE, value |-> JObject(<<>>, <<>>)]
    ELSE IF text = <<"[", "]">> THEN [ok |-> TRUE, value |-> JArray(<<>>)]
    ELSE IF Len(text) = 5 /\ text[1] = "{" /\ IsKeyTok(text[2]) /\ text[3] = ":"
            /\ IsNumTok(text[4]) /\ text[5] = "}"
         THEN [ok |-> TRUE,
               value |-> JObject(<<KeyOf(text[2])>>, <<NumOf(text[4])>>)]
    ELSE IF Len(text) = 3 /\ text[1] = "[" /\ IsNumTok(text[2]) /\ text[3] = "]"
         THEN [ok |-> TRUE, value |-> JArray(<<NumOf(text[2])>>)]
    ELSE [ok |-> FALSE, value |-> JArray(<<>>)]

\* json.dumps(value, indent=2, ensure_ascii=False)
JsonDumps(value) ==
    IF value.vals = <<>>
    THEN IF value.type = "object" THEN <<"{", "}">> ELSE <<"[", "]">>
    ELSE IF value.type = "object"
    THEN <<"{", "\n", "  ", Quote(value.keys[1]), ": ",
           ToString(value.vals[1]), "\n", "}">>
    ELSE <<"[", "\n", "  ", ToString(value.vals[1]), "\n", "]">>

\* ------------------------------------------------------------------ exceptions

NoExc == [cls |-> "", msg |-> <<>>]
Exc(cls, msg) == [cls |-> cls, msg |-> msg]

\* The classes each exception class derives from (Python and httpx).
Bases(cls) ==
    CASE cls = "JSONDecodeError" -> {"JSONDecodeError", "ValueError", "Exception"}
      [] cls = "KeyError" -> {"KeyError", "LookupError", "Exception"}
      [] cls = "HTTPStatusError" -> {"HTTPStatusError", "HTTPError", "Exception"}
      [] cls = "RequestError" -> {"RequestError", "HTTPError", "Exception"}
      [] OTHER -> {cls, "Exception"}

IsInstance(exc, cls) == cls \in Bases(exc.cls)

\* What a function call yields: a value or a raised exception.
NoValue == JArray(<<>>)
Returned(v) == [raised |-> FALSE, value |-> v, exc |-> NoExc]
Raised(cls, msg) == [raised |-> TRUE, value |-> NoValue, exc |-> Exc(cls, msg)]

\* ------------------------------------------------------------------ API client

TokenRequiredMsg ==
    <<"API token is required. Set INTIGRITI_API_TOKEN environment variable or pass api_token parameter.">>

\* Variant of ClientInit that skips the token check (C7 is checked against it).
ClientInitNoCheck(token_in_env) ==
    Returned([base_url |-> Rstrip(DefaultBaseUrl, "/"),
              headers |-> <<"Authorization", "Content-Type", "User-Agent">>])

\* IntigritiResearcherAPI.__init__ with no arguments: the token comes from
\* the environment; without one it raises ValueError.
ClientInit(token_in_env) ==
    IF ~token_in_env THEN Raised("ValueError", TokenRequiredMsg)
    ELSE Returned([base_url |-> Rstrip(DefaultBaseUrl, "/"),
                   headers |-> <<"Authorization", "Content-Type", "User-Agent">>])

\* The url _make_request computes for an endpoint.
RequestUrl(base_url, endpoint) == urljoin(base_url \o <<"/">>, Lstrip(endpoint, "/"))

RateLimitStatus == 429
UnauthorizedStatus == 401
DefaultRetryAfter == "60"
AuthFailedMsg == <<"Authentication failed. Check your API token.">>

\* httpx Response.is_success
IsSuccess(status) == 200 <= status /\ status <= 299

\* The outcome of client.request: a response, or a transport failure.
HttpResponse(status, headers, text) ==
    [kind |-> "response", status |-> status, headers |-> headers, text |-> text,
     cause |-> ""]
TransportFailure(cause) ==
    [kind |-> "transport", status |-> 0, headers |-> [k \in {} |-> ""],
     text |-> <<>>, cause |-> cause]

JsonErrorMsg == <<"Expecting value: line 1 column 1 (char 0)">>

\* Variant of MakeRequestBody that calls raise_for_status before looking
\* for 429 and 401 (C6 is checked against it).
MakeRequestBodyStatusFirst(outcome) ==
    IF outcome.kind = "transport" THEN Raised("RequestError", <<outcome.cause>>)
    ELSE IF ~IsSuccess(outcome.status)
    THEN Raised("HTTPStatusError", <<"status error">>)
    ELSE LET parsed == JsonLoads(outcome.text)
         IN IF parsed.ok THEN Returned(parsed.value)
            ELSE Raised("JSONDecodeError", JsonErrorMsg)

\* The try body of _make_request once client.request has completed.
MakeRequestBody(outcome) ==
    IF outcome.kind = "transport" THEN Raised("RequestError", <<outcome.cause>>)
    ELSE IF outcome.status = RateLimitStatus
    THEN LET retry_after == DictGet(outcome.headers, "Retry-After", DefaultRetryAfter)
         IN Raised("IntigritiAPIError",
                   <<"Rate limited. Retry after ", retry_after, " seconds.">>)
    ELSE IF outcome.status = UnauthorizedStatus
    THEN Raised("IntigritiAPIError", AuthFailedMsg)
    ELSE IF ~IsSuccess(outcome.status)
    THEN Raised("HTTPStatusError", <<"status error">>)
    ELSE LET parsed == JsonLoads(outcome.text)
         IN IF parsed.ok THEN Returned(parsed.value)
            ELSE Raised("JSONDecodeError", JsonErrorMsg)

\* _make_request from the completion of client.request on: the try body and
\* its two except clauses.
MakeRequestResult(outcome) ==
    LET r == MakeRequestBody(outcome) IN
    IF r.raised /\ IsInstance(r.exc, "HTTPStatusError")
    THEN Raised("IntigritiAPIError",
                <<"API request failed: ", ToString(outcome.status), " - ">>
                \o outcome.text)
    ELSE IF r.raised /\ IsInstance(r.exc, "RequestError")
    THEN Raised("IntigritiAPIError", <<"Network error: ">> \o r.exc.msg)
    ELSE r

\* A call prepared up to its await of client.request, or the exception or
\* early return that came first.
NoKwargs == [k \in {} |-> JNull]
PreparedRequest(method, endpoint, kwargs) ==
    [kind |-> "request", method |-> method, endpoint |-> endpoint,
     kwargs |-> kwargs, exc |-> NoExc]
PreparedRaise(cls, msg) ==
    [kind |-> "raise", method |-> "", endpoint |-> <<>>, kwargs |-> NoKwargs,
     exc |-> Exc(cls, msg)]
PreparedUnknown ==
    [kind |-> "unknown", method |-> "", endpoint |-> <<>>, kwargs |-> NoKwargs,
     exc |-> NoExc]

MaxLimit == 500
DefaultLimit == 20
DefaultOffset == 0

\* min(limit, 500) on Python ints.
Min(a, b) == IF a < b THEN a ELSE b

MinTypeErrorMsg == <<"'<' not supported between instances of 'int' and 'NoneType'">>

\* Variant of SetIfNotNone that tests truthiness, `if value:`, so that False
\* and 0 are dropped (C5 is checked against it).
SetIfTruthy(params, key, value) ==
    IF value # JNull /\ value # JBool(FALSE) /\ value # JInt(0)
    THEN DictSet(params, key, value) ELSE params

\* params with params[key] = value when the value is not None.
SetIfNotNone(params, key, value) ==
    IF value # JNull THEN DictSet(params, key, value) ELSE params

get_programs(status_id, type_id, following, limit, offset) ==
    IF limit.t # "int" THEN PreparedRaise("TypeError", MinTypeErrorMsg)
    ELSE
      LET p0 == DictSet(DictSet(EmptyDict, "limit", JInt(Min(limit.v, MaxLimit))),
                        "offset", offset)
          p1 == SetIfNotNone(p0, "statusId", status_id)
          p2 == SetIfNotNone(p1, "typeId", type_id)
          p3 == SetIfNotNone(p2, "following", following)
      IN PreparedRequest("GET", <<"v1", "/", "programs">>,
                         DictSet(NoKwargs, "params", JObj(p3)))

get_program_activities(created_since, following, limit, offset) ==
    IF limit.t # "int" THEN PreparedRaise("TypeError", MinTypeErrorMsg)
    ELSE
      LET p0 == DictSet(DictSet(EmptyDict, "limit", JInt(Min(limit.v, MaxLimit))),
                        "offset", offset)
          p1 == SetIfNotNone(p0, "createdSince", created_since)
          p2 == SetIfNotNone(p1, "following", following)
      IN PreparedRequest("GET", <<"v1", "/", "programs", "/", "activities">>,
                         DictSet(NoKwargs, "params", JObj(p2)))

\* str(x) inside an f-string.
Format(x) ==
    IF x.t = "str" THEN x.v
    ELSE IF x.t = "int" THEN StrOfInt(x.v)
    ELSE <<"None">>

get_program_details(program_id) ==
    PreparedRequest("GET", <<"v1", "/", "programs", "/">> \o Format(program_id),
                    NoKwargs)

get_program_domains(program_id, version_id) ==
    PreparedRequest("GET",
                    <<"v1", "/", "programs", "/">> \o Format(program_id)
                    \o <<"/", "domains", "/">> \o Format(version_id),
                    NoKwargs)

get_program_rules_of_engagement(program_id, version_id) ==
    PreparedRequest("GET",
                    <<"v1", "/", "programs", "/">> \o Format(program_id)
                    \o <<"/", "rules-of-engagements", "/">> \o Format(version_id),
                    NoKwargs)

LstripAttrErrorMsg == <<"'NoneType' object has no attribute 'lstrip'">>

\* call_endpoint hands method, endpoint and kwargs to _make_request, whose
\* first line needs endpoint to be a str.
call_endpoint(method, endpoint, kwargs) ==
    IF endpoint.t # "str" THEN PreparedRaise("AttributeError", LstripAttrErrorMsg)
    ELSE PreparedRequest(Format(method)[1], endpoint.v, kwargs)

\* ------------------------------------------------------------------ adapter

ToolNames == {"get_programs", "get_program_details", "get_program_activities",
              "get_program_domains", "get_program_rules_of_engagement",
              "call_custom_endpoint"}

\* str(KeyError(key))
KeyErrorMsg(key) == <<"'" \o key \o "'">>

\* arguments[key] for each key in turn, then the call.
RECURSIVE Subscript(_, _, _)
Subscript(arguments, keys, call) ==
    IF keys = <<>> THEN call
    ELSE IF Head(keys) \notin DOMAIN arguments
    THEN PreparedRaise("KeyError", KeyErrorMsg(Head(keys)))
    ELSE Subscript(arguments, Tail(keys), call)

\* The if/elif chain of call_tool, up to the await inside the client method.
Dispatch(name, arguments) ==
    IF name = "get_programs"
    THEN get_programs(DictGet(arguments, "status_id", JNull),
                      DictGet(arguments, "type_id", JNull),
                      DictGet(arguments, "following", JNull),
                      DictGet(arguments, "limit", JInt(DefaultLimit)),
                      DictGet(arguments, "offset", JInt(DefaultOffset)))
    ELSE IF name = "get_program_details"
    THEN Subscript(arguments, <<"program_id">>,
                   get_program_details(arguments["program_id"]))
    ELSE IF name = "get_program_activities"
    THEN get_program_activities(DictGet(arguments, "created_since", JNull),
                                DictGet(arguments, "following", JNull),
                                DictGet(arguments, "limit", JInt(DefaultLimit)),
                                DictGet(arguments, "offset", JInt(DefaultOffset)))
    ELSE IF name = "get_program_domains"
    THEN Subscript(arguments, <<"program_id", "version_id">>,
                   get_program_domains(arguments["program_id"],
                                       arguments["version_id"]))
    ELSE IF name = "get_program_rules_of_engagement"
    THEN Subscript(arguments, <<"program_id", "version_id">>,
                   get_program_rules_of_engagement(arguments["program_id"],
                                                   arguments["version_id"]))
    ELSE IF name = "call_custom_endpoint"
    THEN LET k0 == NoKwargs
             k1 == IF "params" \in DOMAIN arguments
                   THEN DictSet(k0, "params", arguments["params"]) ELSE k0
             k2 == IF "json_data" \in DOMAIN arguments
                   THEN DictSet(k1, "json", arguments["json_data"]) ELSE k1
         IN Subscript(arguments, <<"method", "endpoint">>,
                      call_endpoint(arguments["method"], arguments["endpoint"], k2))
    ELSE PreparedUnknown

\* What a handler hands back to the host: call_tool a sequence of content
\* blocks, read_resource a str, either one an exception instead.
TextContent(text) == [type |-> "text", text |-> text]
ToolReturn(text) ==
    [raised |-> FALSE, blocks |-> <<TextContent(text)>>, text |-> <<>>, exc |-> NoExc]
ResourceReturn(text) ==
    [raised |-> FALSE, blocks |-> <<>>, text |-> text, exc |-> NoExc]
HandlerRaise(exc) ==
    [raised |-> TRUE, blocks |-> <<>>, text |-> <<>>, exc |-> exc]

\* Variant of ConstructionFailed without the try, as in read_resource (C1 is
\* checked against it).
ConstructionUncaught(exc) == HandlerRaise(exc)

\* The except ValueError clause around the construction in call_tool.
ConstructionFailed(exc) ==
    IF IsInstance(exc, "ValueError")
    THEN ToolReturn(<<"Configuration error: ">> \o exc.msg)
    ELSE HandlerRaise(exc)

\* Variant of ToolExcept with the generic clause first (C9 is checked
\* against it).
ToolExceptGenericFirst(exc) ==
    IF IsInstance(exc, "Exception")
    THEN ToolReturn(<<"Error: ">> \o exc.msg)
    ELSE HandlerRaise(exc)

\* The two except clauses that close call_tool's try.
ToolExcept(exc) ==
    IF IsInstance(exc, "IntigritiAPIError")
    THEN ToolReturn(<<"API error: ">> \o exc.msg)
    ELSE IF IsInstance(exc, "Exception")
    THEN ToolReturn(<<"Error: ">> \o exc.msg)
    ELSE HandlerRaise(exc)

\* call_tool once the client method has returned or raised.
ToolFinish(r) ==
    IF r.raised THEN ToolExcept(r.exc) ELSE ToolReturn(JsonDumps(r.value))

\* Variant of UnknownTool that raises, as read_resource does for an unknown
\* uri (C2 is checked against it).
UnknownToolRaises(name) == HandlerRaise(Exc("ValueError", <<"Unknown tool: ", name>>))

\* The return for a name that matches no branch.
UnknownTool(name) == ToolReturn(<<"Unknown tool: ", name>>)

\* read_resource: the two fixed fragments of the status text (the leading
\* emoji of each is left out).
StatusOkMark == "API Connected\nTotal programs accessible: "
StatusFailMark == "API Connection Failed\nError: "
GetAttrErrorMsg == <<"'list' object has no attribute 'get'">>

StatusUri == "intigriti://api/status"
EndpointsUri == "intigriti://api/endpoints"

\* The except Exception clause of the status probe.
StatusExcept(exc) ==
    IF IsInstance(exc, "Exception")
    THEN ResourceReturn(<<StatusFailMark>> \o exc.msg)
    ELSE HandlerRaise(exc)

\* programs.get('maxCount', 'Unknown') inside the f-string.
MaxCountText(programs) ==
    IF programs.keys # <<>> /\ programs.keys[1] = "maxCount"
    THEN StrOfInt(programs.vals[1])
    ELSE <<"Unknown">>

\* The status branch of read_resource once get_programs(limit=1) has
\* returned or raised.
StatusFinish(r) ==
    IF r.raised THEN StatusExcept(r.exc)
    ELSE IF r.value.type # "object"
    THEN StatusExcept(Exc("AttributeError", GetAttrErrorMsg))
    ELSE ResourceReturn(<<StatusOkMark>> \o MaxCountText(r.value))

\* json.dumps(endpoints, indent=2) of the static endpoint table.
EndpointsText == <<"{", "\n", "  ", Quote("programs"), ": ",
                   Quote("GET /v1/programs - Get all programs you have access to"),
                   ",", "\n", "  ", "...", "\n", "}">>

\* ------------------------------------------------------------------ state

VARIABLES
    token,        \* INTIGRITI_API_TOKEN is set in the environment
    api_client,   \* the global api_client: NoClient (None) or a client
    instances,    \* how many IntigritiResearcherAPI objects were constructed
    closed,       \* ids of the clients whose connection pool is closed
    task,         \* the handler invocations in flight, per task
    lastResult,   \* the handler invocation that completed last
    mainPc,       \* where main is: "running", "finally", "done"
    exitBy,       \* how the run loop of main ended: "return" or "exception"
    sigCleanup,   \* the cleanup task the signal handler creates
    fnIn,         \* input of the function under study (function specifications)
    fnOut         \* its output

vars == <<token, api_client, instances, closed, task, lastResult, mainPc,
          exitBy, sigCleanup, fnIn, fnOut>>

adapterVars == <<token, api_client, instances, closed, task, lastResult, mainPc,
                 exitBy, sigCleanup>>

NumTasks == 2
Tasks == 1..NumTasks

NoClient == [id |-> 0, base_url |-> <<>>]

\* Variant of ClientAbsent that constructs on every call (C4 is checked
\* against it).
AlwaysAbsent(client) == TRUE

\* `if not api_client`
ClientAbsent(client) == client.id = 0

NoOutcome ==
    [kind |-> "none", status |-> 0, headers |-> [k \in {} |-> ""], text |-> <<>>,
     cause |-> ""]

IdleTask ==
    [pc |-> "idle", op |-> "", name |-> "", arguments |-> EmptyDict,
     had_client |-> FALSE, reqs |-> 0, method |-> "", url |-> <<>>,
     kwargs |-> NoKwargs]

\* A completed invocation: what was asked, how many requests it sent and
\* where, what came back, and what the handler handed to the host.
Completed(op, name, arguments, had_client, reqs, url, kwargs, outcome, res) ==
    [op |-> op, name |-> name, arguments |-> arguments, had_client |-> had_client,
     reqs |-> reqs, url |-> url, kwargs |-> kwargs, outcome |-> outcome, res |-> res]

NoResult ==
    Completed("", "", EmptyDict, FALSE, 0, <<>>, NoKwargs, NoOutcome,
              ResourceReturn(<<>>))

\* ------------------------------------------------------------------ inputs

ProgramId == JStr(<<"p1">>)
VersionId == JStr(<<"v2">>)

ToolCalls ==
    {<<"get_programs", a>> : a \in
        {EmptyDict,
         ("limit" :> JInt(MaxLimit + 1)) @@ ("following" :> JBool(FALSE)),
         ("limit" :> JNull)}}
    \cup {<<"get_program_details", a>> : a \in
        {EmptyDict, ("program_id" :> ProgramId)}}
    \cup {<<"get_program_activities", a>> : a \in
        {("created_since" :> JInt(5))}}
    \cup {<<"get_program_domains", a>> : a \in
        {("program_id" :> ProgramId),
         ("program_id" :> ProgramId) @@ ("version_id" :> VersionId)}}
    \cup {<<"get_program_rules_of_engagement", a>> : a \in
        {("program_id" :> ProgramId) @@ ("version_id" :> VersionId)}}
    \cup {<<"call_custom_endpoint", a>> : a \in
        {("method" :> JStr(<<"GET">>)),
         ("method" :> JStr(<<"GET">>))
            @@ ("endpoint" :> JStr(<<"/", "v1", "/", "programs">>)),
         ("method" :> JStr(<<"POST">>))
            @@ ("endpoint" :> JStr(<<OtherOrigin, "/", "x">>))
            @@ ("json_data" :> JObj(EmptyDict)),
         ("method" :> JStr(<<"GET">>))
            @@ ("endpoint" :> JStr(<<"..", "/", "..", "/", "x">>))
            @@ ("params" :> JObj(EmptyDict))}}
    \cup {<<"delete_program", EmptyDict>>}

ResourceUris == {StatusUri, EndpointsUri, "intigriti://api/other"}

NoHeaders == [k \in {} |-> ""]
RetryAfter(v) == [k \in {"Retry-After"} |-> v]

MaxCountBody == <<"{", Quote("maxCount"), ":", "42", "}">>
HtmlBody == <<"<html>Bad Gateway</html>">>

Outcomes ==
    {HttpResponse(200, NoHeaders, MaxCountBody),
     HttpResponse(200, NoHeaders, <<"[", "]">>),
     HttpResponse(200, NoHeaders, HtmlBody),
     HttpResponse(204, NoHeaders, <<>>),
     HttpResponse(RateLimitStatus, NoHeaders, <<>>),
     HttpResponse(RateLimitStatus, RetryAfter("120"), HtmlBody),
     HttpResponse(UnauthorizedStatus, NoHeaders, <<"token expired">>),
     HttpResponse(404, NoHeaders, <<"not found">>),
     HttpResponse(500, NoHeaders, HtmlBody),
     TransportFailure("timed out")}

\* ------------------------------------------------------------------ actions

AdapterInit ==
    /\ token \in BOOLEAN
    /\ api_client = NoClient
    /\ instances = 0
    /\ closed = {}
    /\ task = [t \in Tasks |-> IdleTask]
    /\ lastResult = NoResult
    /\ mainPc = "running"
    /\ exitBy = ""
    /\ sigCleanup = "none"

Init ==
    /\ AdapterInit
    /\ fnIn = NoOutcome
    /\ fnOut = NoOutcome

\* The client the construction in a handler leaves in the global.
NewClient(built) == [id |-> instances + 1, base_url |-> built.base_url]

\* A handler reaching its await of client.request: the request is sent.
Await(t, op, name, arguments, had_client, client, prep) ==
    task' = [task EXCEPT ![t] =
        [pc |-> "awaiting", op |-> op, name |-> name, arguments |-> arguments,
         had_client |-> had_client, reqs |-> task[t].reqs + 1,
         method |-> prep.method,
         url |-> RequestUrl(client.base_url, prep.endpoint),
         kwargs |-> prep.kwargs]]

\* call_tool(name, arguments) from its entry to its first await or return.
CallTool(t, name, arguments) ==
    /\ mainPc = "running"
    /\ task[t].pc = "idle"
    /\ LET absent == ClientAbsent(api_client)
           built == ClientInit(token)
           done(res) == Completed("call_tool", name, arguments, ~absent, 0, <<>>,
                                  NoKwargs, NoOutcome, res)
       IN IF absent /\ built.raised
          THEN /\ lastResult' = done(ConstructionFailed(built.exc))
               /\ UNCHANGED <<api_client, instances, task>>
          ELSE LET client == IF absent THEN NewClient(built.value) ELSE api_client
                   prep == Dispatch(name, arguments)
               IN /\ api_client' = client
                  /\ instances' = IF absent THEN instances + 1 ELSE instances
                  /\ IF prep.kind = "request"
                     THEN /\ Await(t, "call_tool", name, arguments, ~absent,
                                   client, prep)
                          /\ UNCHANGED lastResult
                     ELSE /\ lastResult' = done(IF prep.kind = "raise"
                                                THEN ToolExcept(prep.exc)
                                                ELSE UnknownTool(name))
                          /\ UNCHANGED task
    /\ UNCHANGED <<token, closed, mainPc, exitBy, sigCleanup, fnIn, fnOut>>

\* read_resource(uri) from its entry to its first await, return or raise.
ReadResource(t, uri) ==
    /\ mainPc = "running"
    /\ task[t].pc = "idle"
    /\ LET absent == ClientAbsent(api_client)
           built == ClientInit(token)
           done(res) == Completed("read_resource", uri, EmptyDict, ~absent, 0,
                                  <<>>, NoKwargs, NoOutcome, res)
       IN IF absent /\ built.raised
          THEN /\ lastResult' = done(HandlerRaise(built.exc))
               /\ UNCHANGED <<api_client, instances, task>>
          ELSE LET client == IF absent THEN NewClient(built.value) ELSE api_client
               IN /\ api_client' = client
                  /\ instances' = IF absent THEN instances + 1 ELSE instances
                  /\ IF uri = StatusUri
                     THEN /\ Await(t, "read_resource", uri, EmptyDict, ~absent,
                                   client,
                                   get_programs(JNull, JNull, JNull, JInt(1),
                                                JInt(DefaultOffset)))
                          /\ UNCHANGED lastResult
                     ELSE /\ lastResult' = done(
                                IF uri = EndpointsUri
                                THEN ResourceReturn(EndpointsText)
                                ELSE HandlerRaise(Exc("ValueError",
                                                      <<"Unknown resource: ", uri>>)))
                          /\ UNCHANGED task
    /\ UNCHANGED <<token, closed, mainPc, exitBy, sigCleanup, fnIn, fnOut>>

\* The awaited client.request completes: _make_request classifies the
\* outcome and the handler formats what it got.
Response(t, outcome) ==
    /\ mainPc = "running"
    /\ task[t].pc = "awaiting"
    /\ LET r == MakeRequestResult(outcome)
           res == IF task[t].op = "call_tool" THEN ToolFinish(r) ELSE StatusFinish(r)
       IN lastResult' = Completed(task[t].op, task[t].name, task[t].arguments,
                                  task[t].had_client, task[t].reqs, task[t].url,
                                  task[t].kwargs, outcome, res)
    /\ task' = [task EXCEPT ![t] = IdleTask]
    /\ UNCHANGED <<token, api_client, instances, closed, mainPc, exitBy,
                   sigCleanup, fnIn, fnOut>>

\* Variant of cleanup that forgets to close (C10 is checked against it).
cleanupNoClose(client, closed_ids) == closed_ids

\* cleanup(): closes the client's pool if there is a client.
cleanup(client, closed_ids) ==
    IF ~ClientAbsent(client) THEN closed_ids \cup {client.id} ELSE closed_ids

\* The run loop of main ends by returning (the host closed the streams);
\* the handlers still in flight end with it.
RunReturns ==
    /\ mainPc = "running"
    /\ mainPc' = "finally"
    /\ exitBy' = "return"
    /\ task' = [t \in Tasks |-> IdleTask]
    /\ UNCHANGED <<token, api_client, instances, closed, lastResult, sigCleanup,
                   fnIn, fnOut>>

\* The run loop of main ends by an exception.
RunRaises ==
    /\ mainPc = "running"
    /\ mainPc' = "finally"
    /\ exitBy' = "exception"
    /\ task' = [t \in Tasks |-> IdleTask]
    /\ UNCHANGED <<token, api_client, instances, closed, lastResult, sigCleanup,
                   fnIn, fnOut>>

\* SIGINT or SIGTERM: signal_handler creates a cleanup task and sys.exit(0)
\* raises SystemExit through the run loop.
Signal ==
    /\ mainPc = "running"
    /\ sigCleanup' = "scheduled"
    /\ mainPc' = "finally"
    /\ exitBy' = "exception"
    /\ task' = [t \in Tasks |-> IdleTask]
    /\ UNCHANGED <<token, api_client, instances, closed, lastResult, fnIn, fnOut>>

\* The cleanup task the signal handler created gets to run before main's
\* own cleanup (it may as well never run).
SignalCleanup ==
    /\ sigCleanup = "scheduled"
    /\ mainPc = "finally"
    /\ sigCleanup' = "ran"
    /\ closed' = cleanup(api_client, closed)
    /\ UNCHANGED <<token, api_client, instances, task, lastResult, mainPc,
                   exitBy, fnIn, fnOut>>

\* The finally block of main: await cleanup(), then main returns.
FinallyCleanup ==
    /\ mainPc = "finally"
    /\ closed' = cleanup(api_client, closed)
    /\ mainPc' = "done"
    /\ UNCHANGED <<token, api_client, instances, task, lastResult, exitBy,
                   sigCleanup, fnIn, fnOut>>

\* Spec: the full input alphabet, with at most MaxInFlight handlers
\* suspended at their awaits at once.
MaxInFlight == 1
InFlight == Cardinality({u \in Tasks : task[u].pc = "awaiting"})

HostCallsTool ==
    /\ InFlight < MaxInFlight
    /\ \E t \in Tasks, c \in ToolCalls : CallTool(t, c[1], c[2])
HostReadsResource ==
    /\ InFlight < MaxInFlight
    /\ \E t \in Tasks, uri \in ResourceUris : ReadResource(t, uri)
ResponseArrives == \E t \in Tasks, outcome \in Outcomes : Response(t, outcome)

Next ==
    \/ HostCallsTool
    \/ HostReadsResource
    \/ ResponseArrives
    \/ RunReturns
    \/ RunRaises
    \/ Signal
    \/ SignalCleanup
    \/ FinallyCleanup

Spec == Init /\ [][Next]_vars

\* SpecInterleaved: any number of handlers interleave at their awaits, over
\* a smaller input alphabet.
FewToolCalls ==
    {<<"get_programs", EmptyDict>>,
     <<"get_program_details", EmptyDict>>,
     <<"get_program_details", ("program_id" :> ProgramId)>>,
     <<"call_custom_endpoint",
       ("method" :> JStr(<<"GET">>))
          @@ ("endpoint" :> JStr(<<"/", "v1", "/", "programs">>))>>,
     <<"delete_program", EmptyDict>>}

FewOutcomes ==
    {HttpResponse(200, NoHeaders, MaxCountBody),
     HttpResponse(200, NoHeaders, HtmlBody),
     HttpResponse(RateLimitStatus, RetryAfter("120"), <<>>),
     HttpResponse(UnauthorizedStatus, NoHeaders, <<"token expired">>),
     TransportFailure("timed out")}

NextInterleaved ==
    \/ \E t \in Tasks, c \in FewToolCalls : CallTool(t, c[1], c[2])
    \/ \E t \in Tasks, uri \in ResourceUris : ReadResource(t, uri)
    \/ \E t \in Tasks, outcome \in FewOutcomes : Response(t, outcome)
    \/ RunReturns
    \/ RunRaises
    \/ Signal
    \/ SignalCleanup
    \/ FinallyCleanup

SpecInterleaved == Init /\ [][NextInterleaved]_vars

\* ------------------------------------------------------------------ function specifications

\* SpecQuery: the query that get_programs and get_program_activities build,
\* for every integer limit around the cap and every way of giving, nulling or
\* leaving out each optional argument.
LimitSpread == 2
LimitValues ==
    {-1, 0, 1, DefaultLimit} \cup ((MaxLimit - LimitSpread)..(MaxLimit + LimitSpread))

\* The dicts that bind each of the keys to one of its values, or leave it out.
RECURSIVE DictsOver(_, _)
DictsOver(keys, values) ==
    IF keys = <<>> THEN {EmptyDict}
    ELSE LET rest == DictsOver(Tail(keys), values)
             k == Head(keys)
         IN rest \cup {DictSet(d, k, v) : d \in rest, v \in values[k]}

QueryArgValues ==
    [limit |-> {JInt(n) : n \in LimitValues},
     offset |-> {JInt(0), JInt(7)},
     status_id |-> {JNull, JInt(3)},
     type_id |-> {JInt(0)},
     following |-> {JNull, JBool(TRUE), JBool(FALSE)},
     created_since |-> {JNull, JInt(1700000000)}]

QueryInputs ==
    {[name |-> n, arguments |-> a] :
        n \in {"get_programs", "get_program_activities"},
        a \in DictsOver(<<"limit", "offset", "status_id", "type_id", "following",
                          "created_since">>, QueryArgValues)}

QueryInit ==
    /\ AdapterInit
    /\ fnIn \in QueryInputs
    /\ fnOut = <<>>

BuildQuery ==
    /\ fnOut = <<>>
    /\ fnOut' = <<Dispatch(fnIn.name, fnIn.arguments)>>
    /\ UNCHANGED <<adapterVars, fnIn>>

SpecQuery == QueryInit /\ [][BuildQuery]_vars

\* SpecRequest: what _make_request makes of each outcome of the exchange.
RequestStatuses == {200, 201, 204, 301, 400, 401, 403, 404, 429, 500, 503}
RequestHeaders == {NoHeaders, RetryAfter("120"), RetryAfter("5")}
RequestBodies ==
    {MaxCountBody, <<"[", "]">>, <<"{", Quote("id"), ":", "1", "}">>, HtmlBody,
     <<>>, <<"token expired">>}

RequestInputs ==
    {HttpResponse(st, h, b) :
        st \in RequestStatuses, h \in RequestHeaders, b \in RequestBodies}
    \cup {TransportFailure(c) : c \in {"timed out", "connection refused"}}

RequestInit ==
    /\ AdapterInit
    /\ fnIn \in RequestInputs
    /\ fnOut = <<>>

ClassifyOutcome ==
    /\ fnOut = <<>>
    /\ fnOut' = <<MakeRequestResult(fnIn)>>
    /\ UNCHANGED <<adapterVars, fnIn>>

SpecRequest == RequestInit /\ [][ClassifyOutcome]_vars

\* ------------------------------------------------------------------ claims

\* s starts with the fragments p; s contains the fragment frag.
StartsWith(s, p) == Len(s) >= Len(p) /\ SubSeq(s, 1, Len(p)) = p
Contains(s, frag) == \E i \in 1..Len(s) : s[i] = frag

ToolDone == lastResult.op = "call_tool"
ToolText == lastResult.res.blocks[1].text
OneTextBlock(res) ==
    ~res.raised /\ Len(res.blocks) = 1 /\ res.blocks[1].type = "text"

\* The construction at the head of the handler failed: no client yet and no
\* token in the environment.
NoTokenNoClient == ~lastResult.had_client /\ ~token

\* The keys each tool's schema lists as required.
Required(name) ==
    CASE name = "get_program_details" -> {"program_id"}
      [] name \in {"get_program_domains", "get_program_rules_of_engagement"}
         -> {"program_id", "version_id"}
      [] name = "call_custom_endpoint" -> {"method", "endpoint"}
      [] OTHER -> {}

MissingRequired ==
    \E k \in Required(lastResult.name) : k \notin DOMAIN lastResult.arguments

\* The outcomes the client classifies: 429, 401, any other non-2xx status,
\* and a transport failure.
Classified(outcome) ==
    \/ outcome.kind = "transport"
    \/ outcome.kind = "response" /\ (outcome.status < 200 \/ outcome.status > 299)

\* What each JSON body of the inputs parses to.
ExpectedJson(text) ==
    CASE text = MaxCountBody -> JObject(<<"maxCount">>, <<42>>)
      [] text = <<"[", "]">> -> JArray(<<>>)
      [] text = <<"{", Quote("id"), ":", "1", "}">> -> JObject(<<"id">>, <<1>>)
      [] OTHER -> NoValue
IsJsonBody(text) ==
    text \in {MaxCountBody, <<"[", "]">>, <<"{", Quote("id"), ":", "1", "}">>}

\* C1: call_tool never raises to the host: whatever the name, the arguments,
\* the token state and the outcome of the HTTP call, it returns a sequence
\* holding exactly one text content block.
C1_CallToolNeverRaises == ToolDone => OneTextBlock(lastResult.res)

\* C1 witness: a call whose 2xx answer was not JSON has completed.
C1_Witness ==
    /\ ToolDone
    /\ lastResult.outcome.kind = "response"
    /\ lastResult.outcome.status = 200
    /\ lastResult.outcome.text = HtmlBody

\* C2 as stated: a name outside the catalog gets a text result containing
\* "Unknown tool", never a raise and never a request, in every state of the
\* adapter (client constructed or not, token available or not).
C2_UnknownToolAlways ==
    (ToolDone /\ lastResult.name \notin ToolNames) =>
        /\ OneTextBlock(lastResult.res)
        /\ Contains(ToolText, "Unknown tool: ")
        /\ lastResult.reqs = 0

\* C2 amended: a name outside the catalog never raises and sends no request;
\* its text is "Unknown tool: {name}" when a client exists or could be
\* constructed, and the configuration error when no client exists and no
\* token is available.
C2_UnknownToolOrConfigError ==
    (ToolDone /\ lastResult.name \notin ToolNames) =>
        /\ OneTextBlock(lastResult.res)
        /\ lastResult.reqs = 0
        /\ IF NoTokenNoClient
           THEN StartsWith(ToolText, <<"Configuration error: ">>)
                /\ ~Contains(ToolText, "Unknown tool: ")
           ELSE ToolText = <<"Unknown tool: ", lastResult.name>>

\* C2 witness: an unknown name was called when the client already existed.
C2_Witness ==
    /\ ToolDone
    /\ lastResult.name \notin ToolNames
    /\ lastResult.had_client

\* C3: every outbound request of a tool call, whatever endpoint string the
\* caller supplies, goes to a URL under the client's base URL.
UnderBaseUrl(url) == StartsWith(url, DefaultBaseUrl \o <<"/">>)
C3_RequestsUnderBaseUrl ==
    \A t \in Tasks : task[t].pc = "awaiting" => UnderBaseUrl(task[t].url)

\* C4: over any interleaving of call_tool and read_resource at most one
\* client is ever constructed; once set, api_client is never replaced or
\* reset (not by later calls, not by cleanup); a construction that fails for
\* lack of a token leaves the global unset.
C4_ClientSingleton ==
    /\ [](instances <= 1 /\ api_client.id = instances)
    /\ [][~ClientAbsent(api_client) => api_client' = api_client]_vars
    /\ [][(ClientAbsent(api_client) /\ ~token) => ClientAbsent(api_client')]_vars

\* C4 witness: two handlers are suspended at their awaits at once, a
\* call_tool that constructed the client and a read_resource that found it.
C4_Witness ==
    \E t, u \in Tasks :
        /\ task[t].pc = "awaiting" /\ task[t].op = "call_tool"
        /\ ~task[t].had_client
        /\ task[u].pc = "awaiting" /\ task[u].op = "read_resource"
        /\ task[u].had_client
        /\ instances = 1

\* C5: for get_programs and get_program_activities the outgoing limit is
\* min(limit, 500) for every integer limit, limit defaults to 20 and offset
\* to 0, and each optional filter of the tool is in the query, under its
\* camelCase name, exactly when the caller gave a non-null value for it.
QueryFilters(name) ==
    IF name = "get_programs" THEN {"status_id", "type_id", "following"}
    ELSE {"created_since", "following"}
CamelCase(k) ==
    CASE k = "status_id" -> "statusId"
      [] k = "type_id" -> "typeId"
      [] k = "created_since" -> "createdSince"
      [] OTHER -> k
C5_QueryParams ==
    fnOut # <<>> =>
        LET a == fnIn.arguments
            out == fnOut[1]
            limit == IF "limit" \in DOMAIN a THEN a["limit"].v ELSE 20
            offset == IF "offset" \in DOMAIN a THEN a["offset"] ELSE JInt(0)
        IN /\ out.kind = "request"
           /\ LET params == out.kwargs["params"].v
              IN /\ params["limit"] = JInt(IF limit > 500 THEN 500 ELSE limit)
                 /\ params["offset"] = offset
                 /\ \A k \in QueryFilters(fnIn.name) :
                        IF k \in DOMAIN a /\ a[k] # JNull
                        THEN CamelCase(k) \in DOMAIN params
                             /\ params[CamelCase(k)] = a[k]
                        ELSE CamelCase(k) \notin DOMAIN params
                 /\ DOMAIN params \subseteq
                        {"limit", "offset"}
                        \cup {CamelCase(k) : k \in QueryFilters(fnIn.name)}

\* C5 witness: get_programs was asked for a limit above the cap together
\* with following = false and a null status_id.
C5_Witness ==
    /\ fnOut # <<>>
    /\ fnIn.name = "get_programs"
    /\ "limit" \in DOMAIN fnIn.arguments /\ fnIn.arguments["limit"].v > 500
    /\ "following" \in DOMAIN fnIn.arguments
    /\ fnIn.arguments["following"] = JBool(FALSE)
    /\ "status_id" \in DOMAIN fnIn.arguments
    /\ fnIn.arguments["status_id"] = JNull

\* C6, the classified outcomes: 429 raises IntigritiAPIError carrying the
\* Retry-After value or "60"; 401 raises it with exactly the fixed message
\* and nothing of the body; any other non-2xx raises it with the status code
\* and the body text; a transport failure raises it with the cause.
C6_Classified(o, r) ==
    CASE o.kind = "transport" ->
            /\ r.raised /\ r.exc.cls = "IntigritiAPIError"
            /\ Contains(r.exc.msg, o.cause)
      [] o.kind = "response" /\ o.status = 429 ->
            /\ r.raised /\ r.exc.cls = "IntigritiAPIError"
            /\ Contains(r.exc.msg,
                        IF "Retry-After" \in DOMAIN o.headers
                        THEN o.headers["Retry-After"] ELSE "60")
      [] o.kind = "response" /\ o.status = 401 ->
            /\ r.raised /\ r.exc.cls = "IntigritiAPIError"
            /\ r.exc.msg = <<"Authentication failed. Check your API token.">>
            /\ \A i \in 1..Len(o.text) : ~Contains(r.exc.msg, o.text[i])
      [] OTHER ->
            /\ r.raised /\ r.exc.cls = "IntigritiAPIError"
            /\ Contains(r.exc.msg, ToString(o.status))
            /\ \A i \in 1..Len(o.text) : Contains(r.exc.msg, o.text[i])

\* C6 as stated: every outcome maps to one result, 429 and 401 first, and a
\* 2xx status returns the parsed JSON body.
C6_EveryOutcomeAsStated ==
    fnOut # <<>> =>
        IF Classified(fnIn) THEN C6_Classified(fnIn, fnOut[1])
        ELSE ~fnOut[1].raised /\ fnOut[1].value = ExpectedJson(fnIn.text)

\* C6 amended: as stated, except that a 2xx status returns the parsed JSON
\* body only when the body is JSON; a 2xx response whose body is not JSON
\* raises the parser's error, which is not an IntigritiAPIError.
C6_EveryOutcome ==
    fnOut # <<>> =>
        IF Classified(fnIn) THEN C6_Classified(fnIn, fnOut[1])
        ELSE IF IsJsonBody(fnIn.text)
        THEN ~fnOut[1].raised /\ fnOut[1].value = ExpectedJson(fnIn.text)
        ELSE fnOut[1].raised /\ fnOut[1].exc.cls # "IntigritiAPIError"
             /\ IsInstance(fnOut[1].exc, "ValueError")

\* C6 witness: a 401 whose body is not empty has been classified.
C6_Witness ==
    /\ fnOut # <<>>
    /\ fnIn.kind = "response" /\ fnIn.status = 401
    /\ fnIn.text = <<"token expired">>
    /\ fnOut[1].raised

C8_StatusNeverRaises ==
    (lastResult.op = "read_resource" /\ lastResult.name = StatusUri) =>
        /\ ~lastResult.res.raised
        /\ IF lastResult.outcome.kind = "response"
              /\ lastResult.outcome.text = MaxCountBody
              /\ ~Classified(lastResult.outcome)
           THEN Contains(lastResult.res.text, "42")
           ELSE Contains(lastResult.res.text, StatusFailMark)

\* C9 as stated: the text starts "Configuration error: " exactly when the
\* construction failed, "API error: " exactly when the client raised a
\* classified error, "Error: " for every other fault (a missing required
\* key, a 2xx body that is not JSON), and otherwise it is the 2-space
\* indented JSON of the returned body.
ApiFault == lastResult.outcome.kind # "none" /\ Classified(lastResult.outcome)
BadLimit ==
    /\ lastResult.name \in {"get_programs", "get_program_activities"}
    /\ "limit" \in DOMAIN lastResult.arguments
    /\ lastResult.arguments["limit"].t # "int"
OtherFault ==
    /\ ~NoTokenNoClient
    /\ \/ MissingRequired
       \/ BadLimit
       \/ /\ lastResult.outcome.kind = "response"
          /\ ~Classified(lastResult.outcome)
          /\ ~IsJsonBody(lastResult.outcome.text)
C9_Prefixes ==
    /\ OneTextBlock(lastResult.res)
    /\ StartsWith(ToolText, <<"Configuration error: ">>) <=> NoTokenNoClient
    /\ StartsWith(ToolText, <<"API error: ">>) <=> ApiFault
    /\ OtherFault => StartsWith(ToolText, <<"Error: ">>)

\* 2-space indented JSON of each body of the inputs.
ExpectedDump(text) ==
    CASE text = MaxCountBody ->
            <<"{", "\n", "  ", "\"maxCount\"", ": ", "42", "\n", "}">>
      [] text = <<"[", "]">> -> <<"[", "]">>
      [] text = <<"{", Quote("id"), ":", "1", "}">> ->
            <<"{", "\n", "  ", "\"id\"", ": ", "1", "\n", "}">>
      [] OTHER -> <<>>

C9_PrefixClassifiesAsStated ==
    ToolDone =>
        /\ C9_Prefixes
        /\ (~NoTokenNoClient /\ ~ApiFault /\ ~OtherFault)
              => ToolText = ExpectedDump(lastResult.outcome.text)

\* C9 amended: as stated, except that "otherwise" has two cases: for a name
\* outside the catalog the text is "Unknown tool: {name}", and for a catalog
\* name it is the 2-space indented JSON of the returned body.
C9_PrefixClassifies ==
    ToolDone =>
        /\ C9_Prefixes
        /\ (~NoTokenNoClient /\ ~ApiFault /\ ~OtherFault)
              => IF lastResult.name \in ToolNames
                 THEN ToolText = ExpectedDump(lastResult.outcome.text)
                 ELSE ToolText = <<"Unknown tool: ", lastResult.name>>

\* C9 witness: a call of a catalog tool answered 500 has completed.
C9_Witness ==
    /\ ToolDone
    /\ lastResult.name \in ToolNames
    /\ lastResult.outcome.kind = "response"
    /\ lastResult.outcome.status = 500

\* C10: whenever the run loop of main ends, by return or by exception,
\* cleanup has run by the time main returns and the client, if one was
\* constructed, is closed; cleanup never constructs or replaces a client, is
\* a no-op without one, and a second run leaves the client closed.
CleanupStep ==
    \/ mainPc = "finally" /\ mainPc' = "done"
    \/ sigCleanup = "scheduled" /\ sigCleanup' = "ran"
C10_ShutdownRelease ==
    /\ [](mainPc = "done" =>
            /\ exitBy \in {"return", "exception"}
            /\ ~ClientAbsent(api_client) => api_client.id \in closed)
    /\ [][CleanupStep =>
            /\ api_client' = api_client
            /\ instances' = instances
            /\ closed \subseteq closed'
            /\ ClientAbsent(api_client) => closed' = closed]_vars

\* C10 witness: main has returned after an exception ended the run loop, the
\* signal handler's cleanup task and the finally block both ran, and the
\* client that had been constructed is closed.
C10_Witness ==
    /\ mainPc = "done"
    /\ exitBy = "exception"
    /\ sigCleanup = "ran"
    /\ ~ClientAbsent(api_client)
    /\ api_client.id \in closed

====
